---- MODULE Spec2Model ----
(***************************************************************************)
(* ECDSA signing and verification keys of the `ecdsa` crate, generic over  *)
(* the curve (sign.rs, signer.rs, verify.rs), and the scalar reduction of  *)
(* the mock curve (dev.rs).                                                *)
(*                                                                         *)
(* Widths are scaled down so that every value can be enumerated: a byte    *)
(* holds ByteBits bits, a limb (u64 in the source) is LimbBytes bytes, a   *)
(* scalar is NLimbs limbs.  The group is an elliptic curve of prime order  *)
(* n = 241 over GF(251); n keeps the shape of the P-256 order the mock     *)
(* curve uses: its top limbs are all ones, n = 1 (mod 4), and the field    *)
(* prime exceeds n.                                                        *)
(***************************************************************************)
EXTENDS Integers, Sequences, FiniteSets, TLC

VARIABLES key, ret, first

vars == <<key, ret, first>>

----------------------------------------------------------------------------
(* Widths *)

\* bits of one byte (scaled from 8)
ByteBits == 1
\* bytes of one limb: u64::from_be_bytes takes 8 bytes, scaled to 2
LimbBytes == 2
\* limbs of a scalar: [w0, w1, w2, w3]
NLimbs == 4

ByteMod == 2 ^ ByteBits
LimbBits == LimbBytes * ByteBits
LimbMod == 2 ^ LimbBits
\* all-ones limb, the value a borrow takes
LimbMask == LimbMod - 1
\* U32 in the source: bytes of a digest and of a field element
FieldSize == NLimbs * LimbBytes
WideMod == 2 ^ (FieldSize * ByteBits)

Byte == 0 .. (ByteMod - 1)

\* elliptic_curve::dev::MODULUS, limbs in little-endian order
MODULUS == <<1, 0, 3, 3>>

RECURSIVE LimbsToInt(_)
LimbsToInt(ws) ==
    IF ws = <<>> THEN 0 ELSE Head(ws) + LimbMod * LimbsToInt(Tail(ws))

\* the group order n
Order == LimbsToInt(MODULUS)

----------------------------------------------------------------------------
(* Byte strings *)

\* u64::from_be_bytes, and the big-endian reading of any byte string
RECURSIVE from_be_bytes(_)
from_be_bytes(bs) ==
    IF bs = <<>> THEN 0
    ELSE from_be_bytes(SubSeq(bs, 1, Len(bs) - 1)) * ByteMod + bs[Len(bs)]

\* the big-endian encoding of v in len bytes
RECURSIVE to_be_bytes(_, _)
to_be_bytes(v, len) ==
    IF len = 0 THEN <<>>
    ELSE Append(to_be_bytes(v \div ByteMod, len - 1), v % ByteMod)

\* every byte string of length len
RECURSIVE BytesOfLen(_)
BytesOfLen(len) ==
    IF len = 0 THEN {<<>>}
    ELSE {Append(bs, b) : bs \in BytesOfLen(len - 1), b \in Byte}

----------------------------------------------------------------------------
(* Scalar reduction (dev.rs) *)

RECURSIVE BitAnd(_, _)
BitAnd(a, b) ==
    IF a = 0 \/ b = 0 THEN 0
    ELSE (a % 2) * (b % 2) + 2 * BitAnd(a \div 2, b \div 2)

\* subtract with borrow: the difference in a double-width word, split into
\* its low limb and its high limb (all ones when the subtraction borrows)
sbb64(a, b, borrow) ==
    LET t == (a - (b + (borrow \div 2 ^ (LimbBits - 1)))) % (LimbMod * LimbMod)
    IN  <<t % LimbMod, t \div LimbMod>>

\* add with carry
adc64(a, b, carry) ==
    LET t == a + b + carry
    IN  <<t % LimbMod, t \div LimbMod>>

\* Scalar::try_from([u64; 4]): fails unless the value is below the modulus
Scalar_try_from(ws) ==
    LET v == LimbsToInt(ws)
    IN  [ok |-> v < Order, value |-> v]

sub_inner_unmasked(l0, l1, l2, l3, l4, r0, r1, r2, r3, r4) ==
    LET s0 == sbb64(l0, r0, 0)
        s1 == sbb64(l1, r1, s0[2])
        s2 == sbb64(l2, r2, s1[2])
        s3 == sbb64(l3, r3, s2[2])
        s4 == sbb64(l4, r4, s3[2])
        c0 == adc64(s0[1], MODULUS[1], 0)
        c1 == adc64(s1[1], MODULUS[2], c0[2])
        c2 == adc64(s2[1], MODULUS[3], c1[2])
        c3 == adc64(s3[1], MODULUS[4], c2[2])
    IN  Scalar_try_from(<<c0[1], c1[1], c2[1], c3[1]>>)

\* l - r, then the modulus added back when the subtraction borrowed
sub_inner(l0, l1, l2, l3, l4, r0, r1, r2, r3, r4) ==
    LET s0 == sbb64(l0, r0, 0)
        s1 == sbb64(l1, r1, s0[2])
        s2 == sbb64(l2, r2, s1[2])
        s3 == sbb64(l3, r3, s2[2])
        s4 == sbb64(l4, r4, s3[2])
        borrow == s4[2]
        c0 == adc64(s0[1], BitAnd(MODULUS[1], borrow), 0)
        c1 == adc64(s1[1], BitAnd(MODULUS[2], borrow), c0[2])
        c2 == adc64(s2[1], BitAnd(MODULUS[3], borrow), c1[2])
        c3 == adc64(s3[1], BitAnd(MODULUS[4], borrow), c2[2])
    IN  Scalar_try_from(<<c0[1], c1[1], c2[1], c3[1]>>)

\* the limb of the digest that ends at byte hi (1-based, inclusive)
LimbAt(bytes, hi) == from_be_bytes(SubSeq(bytes, hi - LimbBytes + 1, hi))

\* FromDigest<MockCurve> for Scalar: [ok, value]; ok = FALSE is the unwrap
\* of a non-canonical value, a panic
from_digest(bytes) ==
    sub_inner(LimbAt(bytes, 4 * LimbBytes), LimbAt(bytes, 3 * LimbBytes),
              LimbAt(bytes, 2 * LimbBytes), LimbAt(bytes, LimbBytes), 0,
              MODULUS[1], MODULUS[2], MODULUS[3], MODULUS[4], 0)

----------------------------------------------------------------------------
(* The group: the curve y^2 = x^3 + CurveA x + CurveB over GF(CurveP), of  *)
(* prime order Order, and arithmetic modulo Order.                         *)

CurveP == 251
CurveA == 1
CurveB == 25
GeneratorX == 0
GeneratorY == 5

\* the point at infinity and an affine point
Identity == [inf |-> TRUE, x |-> 0, y |-> 0]
Affine(px, py) == [inf |-> FALSE, x |-> px, y |-> py]
Generator == Affine(GeneratorX, GeneratorY)

InvP == [v \in 1 .. (CurveP - 1) |->
            CHOOSE w \in 1 .. (CurveP - 1) : (v * w) % CurveP = 1]

\* inverse modulo the group order (Invert for Scalar), defined on 1 .. n-1
InvN == [v \in 1 .. (Order - 1) |->
            CHOOSE w \in 1 .. (Order - 1) : (v * w) % Order = 1]

PointAdd(P, Q) ==
    IF P.inf THEN Q
    ELSE IF Q.inf THEN P
    ELSE IF P.x = Q.x /\ (P.y + Q.y) % CurveP = 0 THEN Identity
    ELSE LET lam == IF P = Q
                    THEN ((3 * P.x * P.x + CurveA) * InvP[(2 * P.y) % CurveP]) % CurveP
                    ELSE ((Q.y - P.y) * InvP[(Q.x - P.x) % CurveP]) % CurveP
             rx == (lam * lam - P.x - Q.x) % CurveP
         IN  Affine(rx, (lam * (P.x - rx) - P.y) % CurveP)

\* point * scalar, by double and add
RECURSIVE PointMul(_, _)
PointMul(P, k) ==
    IF k = 0 THEN Identity
    ELSE LET half == PointMul(PointAdd(P, P), k \div 2)
         IN  IF k % 2 = 1 THEN PointAdd(P, half) ELSE half

\* generator * scalar for every scalar
GeneratorMul == [k \in 0 .. (Order - 1) |-> PointMul(Generator, k)]

----------------------------------------------------------------------------
(* Signatures: r || s, each component FieldSize bytes *)

AllZero(bs) == \A i \in 1 .. Len(bs) : bs[i] = 0

\* Signature::from_scalars: refuses a component that is all zero
Signature_from_scalars(rbytes, sbytes) ==
    [ok |-> ~AllZero(rbytes) /\ ~AllZero(sbytes), r |-> rbytes, s |-> sbytes]

\* a signature component decoded as a non-zero scalar below the order
IsSignatureScalar(v) == 1 <= v /\ v < Order

----------------------------------------------------------------------------
(* The primitives supplied by the curve *)

\* SignPrimitive::try_sign_prehashed on the secret scalar d:
\* R = k * G, r = R.x mod n, s = k^-1 (z + r d) mod n; fails when k has no
\* inverse or r = 0 or s = 0
try_sign_prehashed(d, k, z) ==
    IF k % Order = 0 THEN [ok |-> FALSE, r |-> 0, s |-> 0]
    ELSE LET R == GeneratorMul[k % Order]
             r == R.x % Order
             s == (InvN[k % Order] * (z + r * d)) % Order
         IN  [ok |-> ~R.inf /\ r # 0 /\ s # 0, r |-> r, s |-> s]

\* VerifyPrimitive::verify_prehashed on the public point Q:
\* u1 = z / s, u2 = r / s, R' = u1 G + u2 Q, accepts iff R'.x mod n = r
verify_prehashed(Q, z, sig) ==
    LET r == from_be_bytes(sig.r)
        s == from_be_bytes(sig.s)
    IN  IF ~(IsSignatureScalar(r) /\ IsSignatureScalar(s)) THEN FALSE
        ELSE LET u1 == (z * InvN[s]) % Order
                 u2 == (r * InvN[s]) % Order
                 R == PointAdd(GeneratorMul[u1], PointMul(Q, u2))
             IN  ~R.inf /\ R.x % Order = r

----------------------------------------------------------------------------
(* Nonce generator (RFC 6979 sections 3.2 and 3.6) *)

\* the keyed MAC, over blocks of one field element: a stand-in that mixes
\* the key and every block of the data
RECURSIVE MacFold(_, _)
MacFold(acc, data) ==
    IF data = <<>> THEN acc
    ELSE MacFold((acc * 5 + Head(data) * 3 + 1) % WideMod, Tail(data))

HMAC(K, data) == MacFold((K * 7 + 3) % WideMod, data)

\* bits2octets: the digest reduced once modulo the order
bits2octets(digest) ==
    LET v == from_be_bytes(digest) IN IF v >= Order THEN v - Order ELSE v

\* step 5: draw candidates until one lies in 1 .. n-1
RECURSIVE NonceLoop(_, _, _)
NonceLoop(K, V, tries) ==
    LET T == HMAC(K, <<V>>)
    IN  IF 1 <= T /\ T < Order THEN [k |-> T, tries |-> tries]
        ELSE LET K2 == HMAC(K, <<T, 0>>)
             IN  NonceLoop(K2, HMAC(K2, <<T>>), tries + 1)

\* generate_k(secret_scalar, digest, extra_entropy); extra_entropy is a byte
\* string, empty in the deterministic mode
generate_k(secret_scalar, digest, extra_entropy) ==
    LET x == secret_scalar
        h1 == bits2octets(digest)
        ent == IF extra_entropy = <<>> THEN <<>> ELSE <<from_be_bytes(extra_entropy)>>
        V0 == WideMod - 1
        K1 == HMAC(0, <<V0, 0, x, h1>> \o ent)
        V1 == HMAC(K1, <<V0>>)
        K2 == HMAC(K1, <<V1, 1, x, h1>> \o ent)
        V2 == HMAC(K2, <<V1>>)
    IN  NonceLoop(K2, V2, 0)

----------------------------------------------------------------------------
(* Bounds of the explored inputs *)

\* secret scalars 1 .. MaxSecret, next to the largest one, n - 1
MaxSecret == 1
\* digests 0 .. MaxDigest, next to n - 1, n and the all-ones digest
MaxDigest == 1
\* extra entropy 0 .. MaxEntropy drawn from the random source
MaxEntropy == 1
\* explicit zeroize calls on one key object
MaxZeroize == 1

SecretSamples == (1 .. MaxSecret) \cup {Order - 1}

\* raw key bytes: valid scalars, zero, the order, the all-ones string, and
\* valid scalars encoded one byte short and one byte long
KeyBytesSamples ==
    {to_be_bytes(v, FieldSize) :
        v \in SecretSamples \cup {0, Order, WideMod - 1}}
    \cup {to_be_bytes(v, FieldSize - 1) : v \in 1 .. MaxSecret}
    \cup {to_be_bytes(v, FieldSize + 1) : v \in 1 .. MaxSecret}

\* the contents of a SecretKey: always FieldSize bytes
SecretKeySamples == {b \in KeyBytesSamples : Len(b) = FieldSize}

DigestSamples ==
    {to_be_bytes(v, FieldSize) :
        v \in (0 .. MaxDigest) \cup {Order - 1, Order, WideMod - 1}}

AllDigests == BytesOfLen(FieldSize)

EntropySamples == {to_be_bytes(v, FieldSize) : v \in 0 .. MaxEntropy}

----------------------------------------------------------------------------
(* Key objects.  key is the one SigningKey or Signer the caller holds:     *)
(* secret_scalar is the content of its storage, orig the scalar it was     *)
(* built with, zruns the zeroize runs on the storage.  ret is what the     *)
(* last call returned.  first is the first deterministic signing call.     *)

NoKey ==
    [kind |-> "none", st |-> "none", how |-> "none",
     secret_scalar |-> 0, orig |-> 0, zruns |-> 0]

LiveKey(kind, how, d) ==
    [kind |-> kind, st |-> "live", how |-> how,
     secret_scalar |-> d, orig |-> d, zruns |-> 0]

NoCall == [op |-> "none"]

\* FromFieldBytes / FromBytes for NonZeroScalar: none for zero and for
\* values that are not below the order
NonZeroScalar_from_field_bytes(b) ==
    LET v == from_be_bytes(b)
    IN  [some |-> 1 <= v /\ v < Order, value |-> v]

\* Zeroize for NonZeroScalar: the storage is overwritten with zero
NonZeroScalar_zeroize(v) == 0

\* NonZeroScalar::to_bytes
NonZeroScalar_to_bytes(v) == to_be_bytes(v, FieldSize)

----------------------------------------------------------------------------
(* SigningKey (sign.rs) *)

SigningKey_new_unchecked(bytes) ==
    IF Len(bytes) # FieldSize THEN [ok |-> FALSE, secret_scalar |-> 0]
    ELSE [ok |-> from_be_bytes(bytes) < Order,
          secret_scalar |-> from_be_bytes(bytes)]

\* SigningKey::new: bytes.try_into() fixes the length, then the scalar must
\* be a non-zero scalar
SigningKey_new(bytes) ==
    IF Len(bytes) # FieldSize THEN [ok |-> FALSE, secret_scalar |-> 0]
    ELSE LET scalar == NonZeroScalar_from_field_bytes(bytes)
         IN  [ok |-> scalar.some, secret_scalar |-> scalar.value]

\* SigningKey::to_bytes
SigningKey_to_bytes(k) == NonZeroScalar_to_bytes(k.secret_scalar)

SigningKey_verify_key_unscaled(k) == [public_key |-> Generator]

\* SigningKey::verify_key: generator * secret_scalar
SigningKey_verify_key(k) ==
    [public_key |-> PointMul(Generator, k.secret_scalar)]

\* Zeroize for SigningKey
SigningKey_zeroize(k) ==
    [k EXCEPT !.secret_scalar = NonZeroScalar_zeroize(@), !.zruns = @ + 1]

SigningKey_drop_forget(k) == [k EXCEPT !.st = "dropped"]

\* Drop for SigningKey: self.zeroize()
SigningKey_drop(k) == [SigningKey_zeroize(k) EXCEPT !.st = "dropped"]

----------------------------------------------------------------------------
(* Signer (signer.rs) *)

\* Signer::new: the scalar of the SecretKey's bytes must be non-zero
Signer_new(secret_key) ==
    LET scalar == NonZeroScalar_from_field_bytes(secret_key)
    IN  IF scalar.some THEN [ok |-> TRUE, secret_scalar |-> scalar.value]
        ELSE [ok |-> FALSE, secret_scalar |-> 0]

\* Zeroize for Signer
Signer_zeroize(k) ==
    [k EXCEPT !.secret_scalar = NonZeroScalar_zeroize(@), !.zruns = @ + 1]

\* Drop for Signer: self.zeroize()
Signer_drop(k) == [Signer_zeroize(k) EXCEPT !.st = "dropped"]

----------------------------------------------------------------------------
(* What a signing call returns, with what it handed to the primitive:      *)
(* k the ephemeral scalar, msg the message argument.  outcome is "ok",     *)
(* "err" (the primitive failed) or "panic" (the reduction's unwrap).       *)
(* calls counts the primitive calls made.  k_left and entropy_left are the *)
(* contents, when the call returns, of the storage that held the ephemeral *)
(* scalar and of the added_entropy buffer (empty when there is none).      *)

\* the ephemeral scalar is returned in a wrapper that zeroizes it on drop
Zeroizing_drop(v) == NonZeroScalar_zeroize(v)

SignCall(kind, mode, d, digest, entropy, eph, msg) ==
    LET p == try_sign_prehashed(d, eph.k, msg.value)
        done == msg.ok /\ p.ok
    IN  [op |-> "sign", kind |-> kind, mode |-> mode, d |-> d,
         digest |-> digest, entropy |-> entropy,
         k |-> eph.k, tries |-> eph.tries, msg |-> msg.value,
         outcome |-> IF ~msg.ok THEN "panic" ELSE IF p.ok THEN "ok" ELSE "err",
         r |-> IF done THEN to_be_bytes(p.r, FieldSize) ELSE <<>>,
         s |-> IF done THEN to_be_bytes(p.s, FieldSize) ELSE <<>>,
         calls |-> 1,
         k_left |-> Zeroizing_drop(eph.k),
         entropy_left |-> entropy]

----------------------------------------------------------------------------
(* Construction.  The caller holds at most one key object at a time.       *)

Construct(kind, how, input, res) ==
    /\ key.st # "live"
    /\ key' = IF res.ok THEN LiveKey(kind, how, res.secret_scalar) ELSE NoKey
    /\ ret' = [op |-> "construct", kind |-> kind, how |-> how,
               input |-> input, ok |-> res.ok]

Call_SigningKey_new(bytes) ==
    Construct("SigningKey", "new", bytes, SigningKey_new(bytes))

\* SigningKey::random: NonZeroScalar::random draws a non-zero scalar
SigningKey_random(d) ==
    Construct("SigningKey", "random", <<>>, [ok |-> TRUE, secret_scalar |-> d])

\* From<&SecretKey> for SigningKey: a copy of the secret key's scalar
SigningKey_from_SecretKey(d) ==
    Construct("SigningKey", "from_secret_key", <<>>,
              [ok |-> TRUE, secret_scalar |-> d])

\* From<NonZeroScalar> for SigningKey
SigningKey_from_NonZeroScalar(d) ==
    Construct("SigningKey", "from_scalar", <<>>,
              [ok |-> TRUE, secret_scalar |-> d])

Call_Signer_new(secret_key) ==
    Construct("Signer", "new", secret_key, Signer_new(secret_key))

----------------------------------------------------------------------------
(* Signing *)

SigningKey_try_sign_digest_hedged(digest) ==
    /\ key.st = "live" /\ key.kind = "SigningKey"
    /\ \E added_entropy \in EntropySamples :
         ret' = SignCall("SigningKey", "digest", key.secret_scalar, digest, <<>>,
                         generate_k(key.secret_scalar, digest, added_entropy),
                         from_digest(digest))
    /\ key' = key

SigningKey_try_sign_digest_retry(digest) ==
    /\ key.st = "live" /\ key.kind = "SigningKey"
    /\ LET msg_scalar == from_digest(digest)
           once == SignCall("SigningKey", "digest", key.secret_scalar, digest, <<>>,
                            generate_k(key.secret_scalar, digest, <<>>), msg_scalar)
           again == SignCall("SigningKey", "digest", key.secret_scalar, digest, <<>>,
                             generate_k(key.secret_scalar, digest,
                                        to_be_bytes(1, FieldSize)),
                             msg_scalar)
       IN  ret' = IF once.outcome = "err" THEN [again EXCEPT !.calls = 2] ELSE once
    /\ key' = key

SigningKey_try_sign_digest_swapped(digest) ==
    /\ key.st = "live" /\ key.kind = "SigningKey"
    /\ LET ephemeral_scalar == generate_k(key.secret_scalar, digest, <<>>)
           msg_scalar == from_digest(digest)
       IN  ret' = SignCall("SigningKey", "digest", key.secret_scalar, digest, <<>>,
                           [k |-> msg_scalar.value, tries |-> 0],
                           [ok |-> msg_scalar.ok, value |-> ephemeral_scalar.k])
    /\ key' = key

\* DigestSigner::try_sign_digest for SigningKey
SigningKey_try_sign_digest(digest) ==
    /\ key.st = "live" /\ key.kind = "SigningKey"
    /\ LET ephemeral_scalar == generate_k(key.secret_scalar, digest, <<>>)
           msg_scalar == from_digest(digest)
       IN  ret' = SignCall("SigningKey", "digest", key.secret_scalar, digest, <<>>,
                           ephemeral_scalar, msg_scalar)
    /\ key' = key

\* RandomizedDigestSigner::try_sign_digest_with_rng for SigningKey;
\* added_entropy is what rng.fill_bytes wrote
SigningKey_try_sign_digest_with_rng(digest) ==
    /\ key.st = "live" /\ key.kind = "SigningKey"
    /\ \E added_entropy \in EntropySamples :
         LET ephemeral_scalar == generate_k(key.secret_scalar, digest, added_entropy)
             msg_scalar == from_digest(digest)
         IN  ret' = SignCall("SigningKey", "rng", key.secret_scalar, digest,
                             added_entropy, ephemeral_scalar, msg_scalar)
    /\ key' = key

\* DigestSigner::try_sign_digest for Signer: the primitive is handed
\* digest.finalize(), the digest's bytes
Signer_try_sign_digest(digest) ==
    /\ key.st = "live" /\ key.kind = "Signer"
    /\ LET ephemeral_scalar == generate_k(key.secret_scalar, digest, <<>>)
       IN  ret' = SignCall("Signer", "digest", key.secret_scalar, digest, <<>>,
                           ephemeral_scalar,
                           [ok |-> TRUE, value |-> from_be_bytes(digest)])
    /\ key' = key

\* RandomizedDigestSigner::try_sign_digest_with_rng for Signer
Signer_try_sign_digest_with_rng(digest) ==
    /\ key.st = "live" /\ key.kind = "Signer"
    /\ \E added_entropy \in EntropySamples :
         LET ephemeral_scalar == generate_k(key.secret_scalar, digest, added_entropy)
         IN  ret' = SignCall("Signer", "rng", key.secret_scalar, digest,
                             added_entropy, ephemeral_scalar,
                             [ok |-> TRUE, value |-> from_be_bytes(digest)])
    /\ key' = key

----------------------------------------------------------------------------
(* Reading the key, zeroize and drop *)

Call_SigningKey_to_bytes ==
    /\ key.st = "live" /\ key.kind = "SigningKey"
    /\ ret' = [op |-> "to_bytes", bytes |-> SigningKey_to_bytes(key)]
    /\ key' = key

Call_SigningKey_verify_key ==
    /\ key.st = "live" /\ key.kind = "SigningKey"
    /\ ret' = [op |-> "verify_key", verify_key |-> SigningKey_verify_key(key)]
    /\ key' = key

Call_SigningKey_zeroize ==
    /\ key.st = "live" /\ key.kind = "SigningKey"
    /\ key.zruns < MaxZeroize
    /\ key' = SigningKey_zeroize(key)
    /\ ret' = [op |-> "zeroize", zruns |-> key.zruns]

Call_SigningKey_drop ==
    /\ key.st = "live" /\ key.kind = "SigningKey"
    /\ key' = SigningKey_drop(key)
    /\ ret' = [op |-> "drop", zruns |-> key.zruns]

Call_Signer_zeroize ==
    /\ key.st = "live" /\ key.kind = "Signer"
    /\ key.zruns < MaxZeroize
    /\ key' = Signer_zeroize(key)
    /\ ret' = [op |-> "zeroize", zruns |-> key.zruns]

Call_Signer_drop ==
    /\ key.st = "live" /\ key.kind = "Signer"
    /\ key' = Signer_drop(key)
    /\ ret' = [op |-> "drop", zruns |-> key.zruns]

----------------------------------------------------------------------------
(* Verification (verify.rs) *)

VerifyKey_verify_digest_unchecked(verify_key, digest, signature) ==
    from_digest(digest).ok

\* DigestVerifier::verify_digest for VerifyKey: TRUE is Ok(())
VerifyKey_verify_digest(verify_key, digest, signature) ==
    LET z == from_digest(digest)
    IN  z.ok /\ verify_prehashed(verify_key.public_key, z.value, signature)

\* bit i of a byte string flipped, bit 1 the most significant
FlipBit(bs, i) ==
    LET w == 2 ^ (Len(bs) * ByteBits - i)
        v == from_be_bytes(bs)
    IN  to_be_bytes(IF (v \div w) % 2 = 1 THEN v - w ELSE v + w, Len(bs))

\* what is done to a signature before it is verified
Tampers ==
    {[what |-> "none", comp |-> "none", arg |-> 0]}
    \cup {[what |-> "flip", comp |-> c, arg |-> i] :
            c \in {"r", "s"}, i \in 1 .. (FieldSize * ByteBits)}
    \cup {[what |-> "set", comp |-> c, arg |-> v] :
            c \in {"r", "s"}, v \in {0, Order, WideMod - 1}}

Tampered(bs, comp, t) ==
    IF t.comp # comp THEN bs
    ELSE IF t.what = "flip" THEN FlipBit(bs, t.arg)
    ELSE to_be_bytes(t.arg, FieldSize)

\* the signature the last signing call returned is tampered with, built by
\* Signature::from_scalars and verified under the key's verify key for the
\* digest that was signed
Call_VerifyKey_verify_digest(t) ==
    /\ ret.op = "sign" /\ ret.outcome = "ok"
    /\ key.st = "live" /\ key.kind = "SigningKey"
    /\ LET rbytes == Tampered(ret.r, "r", t)
           sbytes == Tampered(ret.s, "s", t)
           sig == Signature_from_scalars(rbytes, sbytes)
       IN  ret' = [op |-> "verify", mode |-> ret.mode,
                   d |-> ret.d, digest |-> ret.digest,
                   r0 |-> ret.r, s0 |-> ret.s, tamper |-> t,
                   r |-> rbytes, s |-> sbytes, built |-> sig.ok,
                   ok |-> sig.ok /\ VerifyKey_verify_digest(
                                        SigningKey_verify_key(key), ret.digest, sig)]
    /\ key' = key

----------------------------------------------------------------------------
(* Scalar reduction called on its own *)

Call_from_digest ==
    /\ ret.op = "digest"
    /\ ret' = [op |-> "from_digest", digest |-> ret.digest,
               scalar |-> from_digest(ret.digest)]
    /\ key' = key

----------------------------------------------------------------------------
(* Specifications *)

\* two signing calls of the same kind on the same secret scalar and digest
SameCall(a, b) == a.kind = b.kind /\ a.d = b.d /\ a.digest = b.digest

\* first remembers the first deterministic signing call, and whether any
\* other call was made after it
Remember ==
    first' = IF first.op = "none"
             THEN [op |-> "sign", call |-> ret', others |-> FALSE]
             ELSE IF SameCall(ret', first.call) THEN first
             ELSE [first EXCEPT !.others = TRUE]

Other ==
    first' = IF first.op = "none" THEN first ELSE [first EXCEPT !.others = TRUE]

Init ==
    /\ key = NoKey
    /\ ret = NoCall
    /\ first = NoCall

Next ==
    \/ \E bytes \in KeyBytesSamples : Call_SigningKey_new(bytes) /\ Other
    \/ \E d \in SecretSamples : SigningKey_random(d) /\ Other
    \/ \E d \in SecretSamples : SigningKey_from_SecretKey(d) /\ Other
    \/ \E d \in SecretSamples : SigningKey_from_NonZeroScalar(d) /\ Other
    \/ \E sk \in SecretKeySamples : Call_Signer_new(sk) /\ Other
    \/ \E digest \in DigestSamples : SigningKey_try_sign_digest(digest) /\ Remember
    \/ \E digest \in DigestSamples :
         SigningKey_try_sign_digest_with_rng(digest) /\ Other
    \/ \E digest \in DigestSamples : Signer_try_sign_digest(digest) /\ Remember
    \/ \E digest \in DigestSamples :
         Signer_try_sign_digest_with_rng(digest) /\ Other
    \/ Call_SigningKey_to_bytes /\ Other
    \/ Call_SigningKey_verify_key /\ Other
    \/ Call_SigningKey_zeroize /\ Other
    \/ Call_SigningKey_drop /\ Other
    \/ Call_Signer_zeroize /\ Other
    \/ Call_Signer_drop /\ Other

Spec == Init /\ [][Next]_vars

\* signing and verifying, over every digest: a key is built, signs one
\* digest, the signature is verified, the key is dropped.  A signing call's
\* result does not depend on the calls before it (Spec interleaves them), so
\* signing again with the same key object reaches no further state.
NextVerify ==
    \/ \E bytes \in KeyBytesSamples : Call_SigningKey_new(bytes) /\ UNCHANGED first
    \/ \E digest \in AllDigests :
         ret.op = "construct" /\ SigningKey_try_sign_digest(digest) /\ UNCHANGED first
    \/ \E digest \in AllDigests :
         /\ ret.op = "construct"
         /\ SigningKey_try_sign_digest_with_rng(digest)
         /\ UNCHANGED first
    \/ \E t \in Tampers : Call_VerifyKey_verify_digest(t) /\ UNCHANGED first
    \/ Call_SigningKey_drop /\ UNCHANGED first

SpecVerify == Init /\ [][NextVerify]_vars

\* the reduction of every digest
InitReduce ==
    /\ key = NoKey
    /\ ret \in {[op |-> "digest", digest |-> b] : b \in AllDigests}
    /\ first = NoCall

NextReduce == Call_from_digest /\ UNCHANGED first

SpecReduce == InitReduce /\ [][NextReduce]_vars

----------------------------------------------------------------------------
(* Properties *)

\* the digest read as one big-endian integer
DigestValue(digest) == from_be_bytes(digest)

\* C1: the scalar from_digest returns for the digest L is L when L < n and
\* L - n when n <= L < 2^W; it is below n, so the unwrap does not panic
ReductionCorrect ==
    ret.op = "from_digest" =>
        LET L == DigestValue(ret.digest)
        IN  /\ ret.scalar.ok
            /\ ret.scalar.value < Order
            /\ ret.scalar.value = IF L < Order THEN L ELSE L - Order

ReductionSubtracted ==
    /\ ret.op = "from_digest"
    /\ DigestValue(ret.digest) >= Order
    /\ ret.scalar.ok
    /\ ret.scalar.value = DigestValue(ret.digest) - Order

\* C2: the signature try_sign_digest returns for a digest is accepted by
\* verify_digest under the key's verify key for the same digest
RoundTrip ==
    (ret.op = "verify" /\ ret.tamper.what = "none") => ret.ok

RoundTripDone ==
    /\ ret.op = "verify" /\ ret.tamper.what = "none" /\ ret.mode = "digest"
    /\ ret.d = Order - 1
    /\ ret.ok

\* C4: a deterministic signing call returns what the first call of the same
\* kind on the same secret scalar and digest returned, whatever calls were
\* made in between
Determinism ==
    (/\ ret.op = "sign" /\ ret.mode = "digest"
     /\ first.op = "sign" /\ SameCall(ret, first.call)) =>
        /\ ret.outcome = first.call.outcome
        /\ ret.r = first.call.r
        /\ ret.s = first.call.s

SignedAgain ==
    /\ ret.op = "sign" /\ ret.mode = "digest" /\ ret.outcome = "ok"
    /\ first.op = "sign" /\ SameCall(ret, first.call)
    /\ first.others

\* C5: the ephemeral scalar a signing call hands to the primitive, with or
\* without extra entropy, satisfies 1 <= k < n, also when the first
\* candidate was refused
NonceValid ==
    ret.op = "sign" => (1 <= ret.k /\ ret.k < Order)

NonceRetried ==
    /\ ret.op = "sign" /\ ret.tries > 0
    /\ 1 <= ret.k /\ ret.k < Order

\* (r, s) satisfies the verification equation for the secret scalar d and
\* the message scalar z
IsValidSignature(d, z, r, s) ==
    /\ IsSignatureScalar(r)
    /\ IsSignatureScalar(s)
    /\ LET R == GeneratorMul[((z + r * d) * InvN[s]) % Order]
       IN  ~R.inf /\ R.x % Order = r

FlippedVerify == ret.op = "verify" /\ ret.tamper.what = "flip"

\* s has become n - s
TwinOfSigned ==
    /\ ret.r = ret.r0
    /\ from_be_bytes(ret.s) = Order - from_be_bytes(ret.s0)

\* C6 as stated: a signature with one bit of r or s flipped is rejected
TamperRejected == FlippedVerify => ~ret.ok

\* C6 as amended: a signature with one bit of r or s flipped is rejected
\* unless the flipped pair is itself a valid signature for the key and the
\* digest, as it is when the flip turns s into n - s
TamperRejectedUnlessValid ==
    FlippedVerify =>
        /\ ret.ok <=> IsValidSignature(ret.d, from_digest(ret.digest).value,
                                       from_be_bytes(ret.r), from_be_bytes(ret.s))
        /\ TwinOfSigned => ret.ok
        /\ ~(IsSignatureScalar(from_be_bytes(ret.r))
             /\ IsSignatureScalar(from_be_bytes(ret.s))) => ~ret.ok

TamperTwinAccepted == FlippedVerify /\ TwinOfSigned /\ ret.ok

\* C7: a signature with r = 0, s = 0, r >= n or s >= n is never accepted
MalformedRejected ==
    (/\ ret.op = "verify"
     /\ ~(IsSignatureScalar(from_be_bytes(ret.r))
          /\ IsSignatureScalar(from_be_bytes(ret.s)))) => ~ret.ok

MalformedRefusedByPrimitive ==
    /\ ret.op = "verify" /\ ret.tamper.what = "set"
    /\ from_be_bytes(ret.s) >= Order
    /\ ret.built /\ ~ret.ok

\* C8: a key is built from raw bytes iff they have the scalar width and
\* encode d with 1 <= d < n; otherwise there is no key; a SigningKey that
\* was built gives the bytes back from to_bytes
KeyConstruction ==
    (ret.op = "construct" /\ ret.how = "new") =>
        LET v == from_be_bytes(ret.input)
        IN  /\ ret.ok <=> (Len(ret.input) = FieldSize /\ 1 <= v /\ v < Order)
            /\ ~ret.ok => key.st = "none"
            /\ ret.ok => key.st = "live" /\ key.secret_scalar = v
            /\ (ret.ok /\ ret.kind = "SigningKey") =>
                   SigningKey_to_bytes(key) = ret.input

KeyConstructed ==
    /\ ret.op = "construct" /\ ret.how = "new" /\ ret.kind = "SigningKey"
    /\ ret.ok /\ key.st = "live"
    /\ SigningKey_to_bytes(key) = ret.input

\* C9: the storage of a zeroized or dropped key does not hold the scalar
\* the key was built with, and every drop runs zeroize once more
Zeroization ==
    /\ key.zruns > 0 => key.secret_scalar # key.orig
    /\ key.st = "dropped" => (key.zruns > 0 /\ key.secret_scalar # key.orig)
    /\ ret.op = "drop" => key.zruns = ret.zruns + 1

DroppedAfterZeroize ==
    /\ ret.op = "drop" /\ ret.zruns > 0
    /\ key.st = "dropped" /\ key.zruns = ret.zruns + 1
    /\ key.secret_scalar # key.orig

\* C10: every signing call hands the primitive the reduced message scalar
\* from_digest(digest), the one verify_digest hands to the verify primitive
MessageScalarReduced ==
    ret.op = "sign" =>
        /\ ret.msg = from_digest(ret.digest).value
        /\ ret.msg < Order


\* C11: a signing call fails iff its one primitive call fails (r = 0 or
\* s = 0); it calls the primitive once, returns nothing but the error, and
\* leaves the key's secret scalar as it was
FailurePropagation ==
    ret.op = "sign" =>
        LET p == try_sign_prehashed(ret.d, ret.k, ret.msg)
        IN  /\ ret.calls = 1
            /\ ret.outcome \in {"ok", "err"}
            /\ ret.outcome = "err" <=> (p.r = 0 \/ p.s = 0)
            /\ ret.outcome = "err" => (ret.r = <<>> /\ ret.s = <<>>)
            /\ ret.outcome = "ok" =>
                   /\ from_be_bytes(ret.r) = p.r
                   /\ from_be_bytes(ret.s) = p.s
            /\ key.st = "live"
            /\ key.secret_scalar = ret.d

SigningFailed ==
    /\ ret.op = "sign" /\ ret.outcome = "err" /\ ret.calls = 1
    /\ ret.d >= 1
    /\ key.st = "live" /\ key.secret_scalar = ret.d /\ key.orig = ret.d

\* C12: when a signing call returns, the storage that held the ephemeral
\* scalar and, in the hedged mode, the added_entropy buffer hold zeros, and
\* the scalar was used for one primitive call
NonceLifecycle ==
    ret.op = "sign" =>
        /\ ret.calls = 1
        /\ ret.k_left = 0
        /\ ret.mode = "rng" => AllZero(ret.entropy_left)

\* C13: a key object that can be passed to a signing call holds a secret
\* scalar d with 1 <= d < n, and no signing call runs the primitive with a
\* zero secret scalar
NonZeroSecret ==
    /\ key.st = "live" => (1 <= key.secret_scalar /\ key.secret_scalar < Order)
    /\ ret.op = "sign" => ret.d # 0

====
